---- MODULE Spec2Model ----
(***************************************************************************)
(* Model of the go-ldap-redhat library (package ldap_redhat, v1.2.0):      *)
(* the Connection Establisher (NewSearcher), Searcher.Close and the        *)
(* Lookup Executor (Searcher.GetUser), driven by one sequential caller.    *)
(* The directory-protocol client library (DialURL, StartTLS, Bind, Search, *)
(* Close) is the environment: each of its calls is appended to the log     *)
(* `calls` and its outcome is chosen nondeterministically.                 *)
(*                                                                         *)
(* The configuration loader (loadConfigFromAll and its helpers) reads the   *)
(* process environment `environ` and the file system `files`.              *)
(*                                                                         *)
(* Strings that the code only stores and compares (bind identity, base DN, *)
(* environment names, flag values) are TLA+ strings.  Strings that the     *)
(* code transforms (server URLs, secrets, paths, identifier values,        *)
(* filters, error messages) are sequences of one-character strings; a      *)
(* format literal or a path component is one element of the sequence.      *)
(***************************************************************************)
EXTENDS Integers, Sequences, FiniteSets, TLC

VARIABLES
    pc,       \* position of the caller inside NewSearcher ("idle" outside it)
    op,       \* the operation that ran last (or is running)
    config,   \* NewSearcher: the config argument, when op is NewSearcher
    conn,     \* NewSearcher: the local variable conn (0 is nil)
    s,        \* the *Searcher the caller holds (nil while NewSearcher runs)
    err,      \* the error returned by the last operation
    id,       \* GetUser: the id argument, when op is GetUser
    user,     \* GetUser: the UserRecord returned, when op is GetUser
    result,   \* GetUser: what conn.Search answered, when op is GetUser
    open,     \* library: the open connections the caller can still reach
    calls,    \* library calls made by the operation `op`, in order
    environ,  \* the process environment: variable name -> set or not, value
    files,    \* the file system: path -> what reading the file gives
    DefaultConfig,  \* the package variable DefaultConfig
    ret,      \* the last call of an unexported helper: name, argument, result
    cmd       \* the ldapcheck process: os.Args, position in main, output, exit code

loaderVars == <<environ, files, DefaultConfig, ret>>

vars == <<pc, op, config, conn, s, err, id, user, result, open, calls,
          environ, files, DefaultConfig, ret, cmd>>

----------------------------------------------------------------------------
(* Bounds *)

MaxValueLen == 1    \* length of Identifier.Value
MaxEntries == 2     \* entries in one search result
MaxFilterValueLen == 2   \* length of Identifier.Value where the filter is examined
MaxHostLen == 2     \* length of the host part of a server URL

----------------------------------------------------------------------------
(* Strings as character sequences *)

NUL == "NUL"
\* the characters identifier values are drawn from: a plain one and one
\* that the filter syntax treats as structural
ValueChars == {"a", "*"}

RECURSIVE StrsUpTo(_)
StrsUpTo(n) ==
    IF n = 0 THEN {<<>>}
    ELSE LET shorter == StrsUpTo(n - 1)
         IN  shorter \cup {Append(v, c) : v \in {w \in shorter : Len(w) = n - 1}, c \in ValueChars}

Values == StrsUpTo(MaxValueLen)

\* the strings of at most n characters over the given characters
RECURSIVE StringsOver(_, _)
StringsOver(chars, n) ==
    IF n = 0 THEN {<<>>}
    ELSE LET shorter == StringsOver(chars, n - 1)
         IN  shorter \cup {Append(v, c) : v \in {w \in shorter : Len(w) = n - 1}, c \in chars}

HasPrefix(str, prefix) ==
    /\ Len(str) >= Len(prefix)
    /\ SubSeq(str, 1, Len(prefix)) = prefix

\* strings.TrimPrefix
TrimPrefix(str, prefix) ==
    IF HasPrefix(str, prefix) THEN SubSeq(str, Len(prefix) + 1, Len(str)) ELSE str

\* strings.Index for a one-character needle, 0-based, -1 when absent
Index(str, c) ==
    IF \E i \in 1..Len(str) : str[i] = c
    THEN (CHOOSE i \in 1..Len(str) : str[i] = c /\ \A j \in 1..(i - 1) : str[j] # c) - 1
    ELSE -1

SchemeLdap  == <<"l", "d", "a", "p", ":", "/", "/">>
SchemeLdaps == <<"l", "d", "a", "p", "s", ":", "/", "/">>

extractHostname_LdapOnly(ldapURL) ==
    LET url == TrimPrefix(ldapURL, SchemeLdap)
        colonIndex == Index(url, ":")
    IN  IF colonIndex # -1 THEN SubSeq(url, 1, colonIndex) ELSE url

\* extractHostname
extractHostname(ldapURL) ==
    LET url == TrimPrefix(TrimPrefix(ldapURL, SchemeLdap), SchemeLdaps)
        colonIndex == Index(url, ":")
    IN  IF colonIndex # -1 THEN SubSeq(url, 1, colonIndex) ELSE url

DigitChars == <<"0", "1", "2", "3", "4", "5", "6", "7", "8", "9">>

RECURSIVE Digits(_)
Digits(n) ==
    IF n < 10 THEN <<DigitChars[n + 1]>>
    ELSE Append(Digits(n \div 10), DigitChars[(n % 10) + 1])

\* the %d verb of fmt
Itoa(n) == IF n < 0 THEN <<"-">> \o Digits(-n) ELSE Digits(n)

EscapeChar_NoParen(c) ==
    CASE c = "\\" -> <<"\\", "5", "c">>
      [] c = "*"  -> <<"\\", "2", "a">>
      [] c = NUL  -> <<"\\", "0", "0">>
      [] OTHER    -> <<c>>

\* ldap.EscapeFilter: each structural character becomes a backslash and
\* the two hexadecimal digits of its code
EscapeChar(c) ==
    CASE c = "\\" -> <<"\\", "5", "c">>
      [] c = "*"  -> <<"\\", "2", "a">>
      [] c = "("  -> <<"\\", "2", "8">>
      [] c = ")"  -> <<"\\", "2", "9">>
      [] c = NUL  -> <<"\\", "0", "0">>
      [] OTHER    -> <<c>>

RECURSIVE EscapeFilter(_)
EscapeFilter(v) ==
    IF v = <<>> THEN <<>> ELSE EscapeChar(Head(v)) \o EscapeFilter(Tail(v))

----------------------------------------------------------------------------
(* Data model *)

IDTUID == 0
IDTEmail == 1

Types == {-1, IDTUID, IDTEmail, 999}
Identifiers == [Type : Types, Value : Values]
NoIdentifier == [Type |-> 0, Value |-> <<>>]

Addr1 == <<"l", "d", "a", "p", ":", "/", "/", "h", ":", "1">>
Addr2 == <<"g">>
HardCodedBase == "ou=users,dc=redhat,dc=com"
Configs ==
    LET ServerLists == {<<>>, <<Addr1, Addr2>>}
        BaseDNs == {"dc=example,dc=com", HardCodedBase}
    IN
        [LdapServers : ServerLists, Username : {"", "u"}, Password : {<<>>, <<"p">>},
         BaseDN : BaseDNs, UseStartTLS : BOOLEAN, VerifySSL : BOOLEAN]

ZeroConfig ==
    [LdapServers |-> <<>>, Username |-> "", Password |-> <<>>, BaseDN |-> "",
     UseStartTLS |-> FALSE, VerifySSL |-> FALSE]

\* the *ldap.Conn a successful DialURL returns; 0 is the nil pointer
NewConn == 1

\* a *Searcher: nil, or a Searcher{config, conn} where conn 0 is the nil *ldap.Conn
NilSearcher == [nil |-> TRUE, config |-> ZeroConfig, conn |-> 0]
Searcher(c, cn) == [nil |-> FALSE, config |-> c, conn |-> cn]

\* an error value: nil, or a message
NilError == [nil |-> TRUE, msg |-> <<>>]
Errorf(m) == [nil |-> FALSE, msg |-> m]

RequestedAttrs ==
    <<"uid", "mail", "cn", "sn", "title", "manager", "rhatCostCenter", "rhatLocation",
      "rhatJobCode", "rhatUUID", "rhatHireDate", "rhatTermDate">>

AttrNames ==
    {RequestedAttrs[i] : i \in 1..Len(RequestedAttrs)}
        \cup {"rhatCostCenterDesc", "rhatAdjSvcDate"}

\* directory entries the server may return: attribute name -> list of values
EntryA == [a \in AttrNames |-> <<a>>]
EntryB == [a \in AttrNames |-> IF a \in {"uid", "mail"} THEN <<"b", a>> ELSE <<>>]
Entries == {EntryA, EntryB}

\* the entry lists of at most n entries in which neighbours differ
RECURSIVE EntryListsUpTo(_)
EntryListsUpTo(n) ==
    IF n = 0 THEN {<<>>}
    ELSE LET shorter == EntryListsUpTo(n - 1)
             longest == {w \in shorter : Len(w) = n - 1}
         IN  shorter \cup ({Append(l, e) : l \in longest, e \in Entries}
                              \ {Append(l, l[Len(l)]) : l \in longest \ {<<>>}})

\* what conn.Search returns: an error, or a result with its entries
NoResult == [called |-> FALSE, ok |-> FALSE, entries |-> <<>>]
SearchFailed == [called |-> TRUE, ok |-> FALSE, entries |-> <<>>]
SearchOK(es) == [called |-> TRUE, ok |-> TRUE, entries |-> es]
SearchResults == {SearchFailed} \cup {SearchOK(es) : es \in EntryListsUpTo(MaxEntries)}

\* ldap.Entry.GetAttributeValue: the first value, or "" when there is none
GetAttributeValue(entry, attr) ==
    IF entry[attr] = <<>> THEN "" ELSE entry[attr][1]

EmptyUserRecord_WithUID ==
    [UID |-> "?", Email |-> "", DisplayName |-> "", Surname |-> "", Title |-> "",
     ManagerUID |-> "", CostCenter |-> "", CostCenterDesc |-> "", RhatLocation |-> "",
     RhatJobCode |-> "", RhatUUID |-> "", RhatHireDate |-> "", RhatTermDate |-> "",
     RhatAdjSvcDate |-> ""]

\* UserRecord{}
EmptyUserRecord ==
    [UID |-> "", Email |-> "", DisplayName |-> "", Surname |-> "", Title |-> "",
     ManagerUID |-> "", CostCenter |-> "", CostCenterDesc |-> "", RhatLocation |-> "",
     RhatJobCode |-> "", RhatUUID |-> "", RhatHireDate |-> "", RhatTermDate |-> "",
     RhatAdjSvcDate |-> ""]

UserFromEntry_WithDesc(entry) ==
    [EmptyUserRecord EXCEPT
        !.UID            = GetAttributeValue(entry, "uid"),
        !.Email          = GetAttributeValue(entry, "mail"),
        !.DisplayName    = GetAttributeValue(entry, "cn"),
        !.Surname        = GetAttributeValue(entry, "sn"),
        !.Title          = GetAttributeValue(entry, "title"),
        !.ManagerUID     = GetAttributeValue(entry, "manager"),
        !.CostCenter     = GetAttributeValue(entry, "rhatCostCenter"),
        !.CostCenterDesc = GetAttributeValue(entry, "rhatCostCenterDesc"),
        !.RhatLocation   = GetAttributeValue(entry, "rhatLocation"),
        !.RhatJobCode    = GetAttributeValue(entry, "rhatJobCode"),
        !.RhatUUID       = GetAttributeValue(entry, "rhatUUID"),
        !.RhatHireDate   = GetAttributeValue(entry, "rhatHireDate"),
        !.RhatTermDate   = GetAttributeValue(entry, "rhatTermDate")]

\* the UserRecord literal of GetUser; the fields it does not name keep ""
UserFromEntry(entry) ==
    [EmptyUserRecord EXCEPT
        !.UID          = GetAttributeValue(entry, "uid"),
        !.Email        = GetAttributeValue(entry, "mail"),
        !.DisplayName  = GetAttributeValue(entry, "cn"),
        !.Surname      = GetAttributeValue(entry, "sn"),
        !.Title        = GetAttributeValue(entry, "title"),
        !.ManagerUID   = GetAttributeValue(entry, "manager"),
        !.CostCenter   = GetAttributeValue(entry, "rhatCostCenter"),
        !.RhatLocation = GetAttributeValue(entry, "rhatLocation"),
        !.RhatJobCode  = GetAttributeValue(entry, "rhatJobCode"),
        !.RhatUUID     = GetAttributeValue(entry, "rhatUUID"),
        !.RhatHireDate = GetAttributeValue(entry, "rhatHireDate"),
        !.RhatTermDate = GetAttributeValue(entry, "rhatTermDate")]

----------------------------------------------------------------------------
(* Library calls, as logged *)

NoRequest == [BaseDN |-> "", Filter |-> <<>>, Attributes |-> <<>>]

\* ok: whether the library reported success
LibCall(name) ==
    [name |-> name, ok |-> TRUE, conn |-> 0, addr |-> <<>>, serverName |-> <<>>, insecure |-> FALSE,
     username |-> "", password |-> <<>>, request |-> NoRequest]

DialCall(addr, cn) == [LibCall("DialURL") EXCEPT !.addr = addr, !.conn = cn]
StartTLSCall(cn, serverName, insecure) ==
    [LibCall("StartTLS") EXCEPT !.conn = cn, !.serverName = serverName, !.insecure = insecure]
BindCall(cn, username, password) ==
    [LibCall("Bind") EXCEPT !.conn = cn, !.username = username, !.password = password]
CloseCall(cn) == [LibCall("Close") EXCEPT !.conn = cn]
SearchCall(cn, req) == [LibCall("Search") EXCEPT !.conn = cn, !.request = req]
Failed(call) == [call EXCEPT !.ok = FALSE]

CallsNamed(name) == {i \in 1..Len(calls) : calls[i].name = name}

----------------------------------------------------------------------------
(* The process environment *)

EnvNames ==
    {"LDAP_URL", "LDAP_BIND_DN", "LDAP_BASE_DN", "LDAP_PASSWORD_FILE", "LDAP_PASSWORD",
     "LDAP_START_TLS", "LDAP_VERIFY_SSL", "LDAP_ENV", "ENV", "HOME"}

\* the variables whose value is a sequence: a server URL, a secret, a path
SeqEnvNames == {"LDAP_URL", "LDAP_PASSWORD_FILE", "LDAP_PASSWORD", "HOME"}

\* the empty string, in the representation of the variable's values
EmptyString(name) == IF name \in SeqEnvNames THEN <<>> ELSE ""

\* a variable that is not in the environment, and one that is set to v
Unset(name) == [set |-> FALSE, val |-> EmptyString(name)]
SetTo(v) == [set |-> TRUE, val |-> v]

NoEnv == [n \in EnvNames |-> Unset(n)]

\* os.Getenv: the value of the variable, empty when it is not set
Getenv(name) == IF environ[name].set THEN environ[name].val ELSE EmptyString(name)

----------------------------------------------------------------------------
(* The file system *)

\* filepath.Join: the non-empty elements, separated by "/" (the elements of
\* the model hold no ".", ".." or doubled separator for Clean to remove)
RECURSIVE Join(_)
Join(elems) ==
    IF elems = <<>> THEN <<>>
    ELSE LET rest == Join(Tail(elems))
         IN  IF Head(elems) = <<>> THEN rest
             ELSE IF rest = <<>> THEN Head(elems)
             ELSE Head(elems) \o <<"/">> \o rest

\* the values of HOME
HomeDirs == {<<>>, <<"/", "h">>}

ConfigYaml == <<"config.yaml">>
ConfigsYaml == <<"configs", "/", "config.yaml">>
HomeYaml(home) == Join(<<home, <<".config">>, <<"ldap">>, <<"config.yaml">>>>)

\* the candidate configuration files, in the order loadYAMLConfig tries them
configPaths == <<ConfigYaml, ConfigsYaml, HomeYaml(Getenv("HOME"))>>

\* password_file of a structured entry, and where it leads for each HOME
TildePw == <<"~", "/", "pw">>
HomePw(home) == Join(<<home, <<"pw">>>>)
\* the value of LDAP_PASSWORD_FILE
EnvPw == <<"run", "/", "pw">>
Nonexistent == <<"/", "nonexistent", "/", "file">>

SecretPaths == {HomePw(h) : h \in HomeDirs} \cup {EnvPw, Nonexistent}
Paths == {ConfigYaml, ConfigsYaml} \cup {HomeYaml(h) : h \in HomeDirs} \cup SecretPaths

\* what yaml.Unmarshal makes of a file: an error, or the environments map
NoDoc == [ok |-> FALSE, Environments |-> <<>>]
Doc(envs) == [ok |-> TRUE, Environments |-> envs]

\* a path with no file, a file that may not be read, a file with its text
Missing == [kind |-> "missing", text |-> <<>>, doc |-> NoDoc]
Denied == [kind |-> "denied", text |-> <<>>, doc |-> NoDoc]
TextFile(text) == [kind |-> "file", text |-> text, doc |-> NoDoc]
Malformed == TextFile(<<"{">>)
YamlFile(envs) == [kind |-> "file", text |-> <<"environments:">>, doc |-> Doc(envs)]

NoFiles == [p \in Paths |-> Missing]

\* os.ReadFile
ReadFile(path) ==
    IF path \in DOMAIN files /\ files[path].kind = "file"
    THEN [err |-> FALSE, data |-> files[path]]
    ELSE [err |-> TRUE, data |-> Missing]

\* yaml.Unmarshal(data, &yamlConfig)
Unmarshal(data) == data.doc

\* an EnvConfig, the entry of one environment in the structured file
EnvConfig(servers, username, baseDN, useStartTLS, verifySSL, passwordFile) ==
    [LdapServers |-> servers, Username |-> username, BaseDN |-> baseDN,
     UseStartTLS |-> useStartTLS, VerifySSL |-> verifySSL, PasswordFile |-> passwordFile]

----------------------------------------------------------------------------
(* The configuration loader *)

WhiteSpace == {" ", "\t", "\n", "\r"}

RECURSIVE TrimLeft(_)
TrimLeft(str) ==
    IF str # <<>> /\ Head(str) \in WhiteSpace THEN TrimLeft(Tail(str)) ELSE str

RECURSIVE TrimRight(_)
TrimRight(str) ==
    IF str # <<>> /\ str[Len(str)] \in WhiteSpace
    THEN TrimRight(SubSeq(str, 1, Len(str) - 1))
    ELSE str

TrimSpace_LeftOnly(str) == TrimLeft(str)

\* strings.TrimSpace
TrimSpace(str) == TrimRight(TrimLeft(str))

\* readSecretFile: the trimmed contents, empty when the file cannot be read
readSecretFile(path) ==
    LET r == ReadFile(path)
    IN  IF r.err THEN <<>> ELSE TrimSpace(r.data.text)

getEnvironment_EnvFirst ==
    IF Getenv("ENV") # "" THEN Getenv("ENV")
    ELSE IF Getenv("LDAP_ENV") # "" THEN Getenv("LDAP_ENV")
    ELSE "local"

\* getEnvironment: LDAP_ENV, else ENV, else "local"
getEnvironment ==
    IF Getenv("LDAP_ENV") # "" THEN Getenv("LDAP_ENV")
    ELSE IF Getenv("ENV") # "" THEN Getenv("ENV")
    ELSE "local"

\* a *Config: nil, or a Config
NilConfig == [nil |-> TRUE, config |-> ZeroConfig]
ConfigPtr(c) == [nil |-> FALSE, config |-> c]

\* os.UserHomeDir on Unix: $HOME (with an error, which the code drops, when empty)
UserHomeDir == Getenv("HOME")

\* the path tryLoadYAMLFile reads the password from: "~/" stands for the home directory
ExpandHome(passwordFile) ==
    IF HasPrefix(passwordFile, <<"~", "/">>)
    THEN Join(<<UserHomeDir, SubSeq(passwordFile, 3, Len(passwordFile))>>)
    ELSE passwordFile

\* tryLoadYAMLFile: nil when the file cannot be read, cannot be parsed or
\* has no entry for env
tryLoadYAMLFile(configPath, env) ==
    LET r == ReadFile(configPath)
        yamlConfig == Unmarshal(r.data)
    IN  IF r.err THEN NilConfig
        ELSE IF ~yamlConfig.ok THEN NilConfig
        ELSE IF env \notin DOMAIN yamlConfig.Environments THEN NilConfig
        ELSE LET envConfig == yamlConfig.Environments[env]
                 password == IF envConfig.PasswordFile # <<>>
                             THEN readSecretFile(ExpandHome(envConfig.PasswordFile))
                             ELSE <<>>
             IN  ConfigPtr([LdapServers |-> envConfig.LdapServers,
                            Username |-> envConfig.Username,
                            Password |-> password,
                            BaseDN |-> envConfig.BaseDN,
                            UseStartTLS |-> envConfig.UseStartTLS,
                            VerifySSL |-> envConfig.VerifySSL])

\* for _, configPath := range configPaths: the first non-nil result
RECURSIVE FirstLoaded(_, _)
FirstLoaded(paths, env) ==
    IF paths = <<>> THEN NilConfig
    ELSE LET c == tryLoadYAMLFile(Head(paths), env)
         IN  IF ~c.nil THEN c ELSE FirstLoaded(Tail(paths), env)

loadYAMLConfig_FirstFound ==
    LET found == {k \in 1..Len(configPaths) : ~ReadFile(configPaths[k]).err}
    IN  IF found = {} THEN NilConfig
        ELSE tryLoadYAMLFile(configPaths[CHOOSE k \in found : \A j \in found : k <= j],
                             getEnvironment)

\* loadYAMLConfig
loadYAMLConfig == FirstLoaded(configPaths, getEnvironment)

FillFromEnv_Override(c) ==
    [c EXCEPT !.LdapServers = IF Getenv("LDAP_URL") # <<>> THEN <<Getenv("LDAP_URL")>> ELSE @,
              !.Username = IF Getenv("LDAP_BIND_DN") # "" THEN Getenv("LDAP_BIND_DN") ELSE @,
              !.BaseDN = IF Getenv("LDAP_BASE_DN") # "" THEN Getenv("LDAP_BASE_DN") ELSE @]

\* 2. Fill empty fields from environment variables
FillFromEnv(c) ==
    [c EXCEPT !.LdapServers = IF Len(@) = 0 /\ Getenv("LDAP_URL") # <<>>
                              THEN <<Getenv("LDAP_URL")>> ELSE @,
              !.Username = IF @ = "" /\ Getenv("LDAP_BIND_DN") # ""
                           THEN Getenv("LDAP_BIND_DN") ELSE @,
              !.BaseDN = IF @ = "" /\ Getenv("LDAP_BASE_DN") # ""
                         THEN Getenv("LDAP_BASE_DN") ELSE @]

FillPassword_DirectFirst(c) ==
    LET passwordFile == Getenv("LDAP_PASSWORD_FILE")
        fromFile == IF passwordFile # <<>> THEN readSecretFile(passwordFile) ELSE <<>>
    IN  IF c.Password # <<>> THEN c
        ELSE IF Getenv("LDAP_PASSWORD") # <<>> THEN [c EXCEPT !.Password = Getenv("LDAP_PASSWORD")]
        ELSE IF fromFile # <<>> THEN [c EXCEPT !.Password = fromFile]
        ELSE c

\* Password: YAML password_file -> LDAP_PASSWORD_FILE -> LDAP_PASSWORD
FillPassword(c) ==
    LET passwordFile == Getenv("LDAP_PASSWORD_FILE")
        fromFile == IF passwordFile # <<>> THEN readSecretFile(passwordFile) ELSE <<>>
    IN  IF c.Password # <<>> THEN c
        ELSE IF fromFile # <<>> THEN [c EXCEPT !.Password = fromFile]
        ELSE IF Getenv("LDAP_PASSWORD") # <<>> THEN [c EXCEPT !.Password = Getenv("LDAP_PASSWORD")]
        ELSE c

OverrideFlags_WhenSet(c) ==
    [c EXCEPT !.UseStartTLS = IF environ["LDAP_START_TLS"].set
                              THEN Getenv("LDAP_START_TLS") = "true" ELSE @,
              !.VerifySSL = IF environ["LDAP_VERIFY_SSL"].set
                            THEN Getenv("LDAP_VERIFY_SSL") = "true" ELSE @]

\* 3. the boolean flags, from LDAP_START_TLS and LDAP_VERIFY_SSL
OverrideFlags(c) ==
    [c EXCEPT !.UseStartTLS = IF Getenv("LDAP_START_TLS") # ""
                              THEN Getenv("LDAP_START_TLS") = "true" ELSE @,
              !.VerifySSL = IF Getenv("LDAP_VERIFY_SSL") # ""
                            THEN Getenv("LDAP_VERIFY_SSL") = "true" ELSE @]

\* steps 2 and 3 of loadConfigFromAll, on the Config of step 1
FromEnv(c) == OverrideFlags(FillPassword(FillFromEnv(c)))

\* loadConfigFromAll
loadConfigFromAll ==
    LET yamlConfig == loadYAMLConfig
    IN  FromEnv(IF ~yamlConfig.nil THEN yamlConfig.config ELSE ZeroConfig)

\* getPasswordFromEnv: the LDAP_PASSWORD_FILE secret, else LDAP_PASSWORD
getPasswordFromEnv ==
    LET passwordFile == Getenv("LDAP_PASSWORD_FILE")
        password == IF passwordFile # <<>> THEN readSecretFile(passwordFile) ELSE <<>>
    IN  IF password # <<>> THEN password ELSE Getenv("LDAP_PASSWORD")

\* the library is not used by the ldapcheck command
NoCommand == [args |-> <<>>, at |-> "none", stdout |-> <<>>, stderr |-> <<>>, exit |-> -1]

\* no helper has been called
NoReturn == [fn |-> "none", arg |-> <<>>, val |-> <<>>]
Returns(fn, arg, val) == [fn |-> fn, arg |-> arg, val |-> val]

----------------------------------------------------------------------------
(* Initial state: the package is loaded in an empty environment with no   *)
(* configuration file, the caller holds no Searcher                       *)

Init ==
    /\ pc = "idle"
    /\ op = "none"
    /\ config = ZeroConfig
    /\ conn = 0
    /\ s = NilSearcher
    /\ err = NilError
    /\ id = NoIdentifier
    /\ user = EmptyUserRecord
    /\ result = NoResult
    /\ open = {}
    /\ calls = <<>>
    /\ environ = NoEnv
    /\ files = NoFiles
    /\ DefaultConfig = ZeroConfig
    /\ ret = NoReturn
    /\ cmd = NoCommand

----------------------------------------------------------------------------
(* NewSearcher *)

\* return nil, e
ReturnError(e) ==
    /\ s' = NilSearcher
    /\ err' = e
    /\ pc' = "idle"

DialAddr_Last(c) == c.LdapServers[Len(c.LdapServers)]

\* the address NewSearcher dials: ldapURL := config.LdapServers[0]
DialAddr(c) == c.LdapServers[1]

NeedsBind_Either(c) == c.Username # "" \/ c.Password # <<>>

\* the guard of the Bind: config.Username != "" && config.Password != ""
NeedsBind(c) == c.Username # "" /\ c.Password # <<>>

DialError_NoAddr(ldapURL) ==
    Errorf(<<"failed to connect to LDAP server ", ": ", "dial error">>)

DialError(ldapURL) ==
    Errorf(<<"failed to connect to LDAP server ">> \o ldapURL \o <<": ", "dial error">>)

StartTLSError == Errorf(<<"failed to start TLS: ", "tls error">>)

BindError == Errorf(<<"failed to bind to LDAP: ", "bind error">>)

NewSearcher_RejectsEmpty(c) ==
    /\ pc = "idle"
    /\ op' = "NewSearcher"
    /\ config' = c
    /\ conn' = 0
    /\ calls' = <<>>
    /\ s' = NilSearcher
    /\ IF Len(c.LdapServers) = 0
       THEN /\ err' = Errorf(<<"no LDAP servers configured">>)
            /\ pc' = "idle"
       ELSE /\ err' = NilError
            /\ pc' = "dial"
    /\ id' = NoIdentifier
    /\ user' = EmptyUserRecord
    /\ result' = NoResult
    /\ open' = {}
    /\ UNCHANGED loaderVars
    /\ UNCHANGED cmd

\* entry of NewSearcher: the Searcher is allocated; an empty server list
\* returns it at once, with no connection.  The caller gives up the
\* Searcher it held, whose connection is then out of the program's reach.
NewSearcher(c) ==
    /\ pc = "idle"
    /\ op' = "NewSearcher"
    /\ config' = c
    /\ conn' = 0
    /\ calls' = <<>>
    /\ err' = NilError
    /\ IF Len(c.LdapServers) = 0
       THEN /\ s' = Searcher(c, 0)
            /\ pc' = "idle"
       ELSE /\ s' = NilSearcher
            /\ pc' = "dial"
    /\ id' = NoIdentifier
    /\ user' = EmptyUserRecord
    /\ result' = NoResult
    /\ open' = {}
    /\ UNCHANGED loaderVars
    /\ UNCHANGED cmd

\* ldap.DialURL failed: return nil and the connection error
DialFailure(ldapURL) ==
    /\ calls' = Append(calls, Failed(DialCall(ldapURL, 0)))
    /\ ReturnError(DialError(ldapURL))
    /\ UNCHANGED <<conn, open>>

\* conn, err := ldap.DialURL(ldapURL)
Dial ==
    /\ pc = "dial"
    /\ LET ldapURL == DialAddr(config)
       IN  \/ /\ conn' = NewConn
              /\ open' = open \cup {NewConn}
              /\ calls' = Append(calls, DialCall(ldapURL, NewConn))
              /\ pc' = IF config.UseStartTLS THEN "starttls"
                       ELSE IF NeedsBind(config) THEN "bind" ELSE "return"
              /\ UNCHANGED <<s, err>>
           \/ DialFailure(ldapURL)
    /\ UNCHANGED <<op, config, id, user, result>>
    /\ UNCHANGED loaderVars
    /\ UNCHANGED cmd

StartTLSFailure_NoClose(tlsCall) ==
    /\ calls' = Append(calls, Failed(tlsCall))
    /\ UNCHANGED open
    /\ ReturnError(StartTLSError)

\* conn.StartTLS failed: conn.Close(), then return nil and the TLS error
StartTLSFailure(tlsCall) ==
    /\ calls' = calls \o <<Failed(tlsCall), CloseCall(conn)>>
    /\ open' = open \ {conn}
    /\ ReturnError(StartTLSError)

StartTLS_IgnoresFailure ==
    /\ pc = "starttls"
    /\ LET tlsCall == StartTLSCall(conn, extractHostname(DialAddr(config)), ~config.VerifySSL)
       IN  /\ \/ calls' = Append(calls, tlsCall)
              \/ calls' = Append(calls, Failed(tlsCall))
           /\ pc' = IF NeedsBind(config) THEN "bind" ELSE "return"
           /\ UNCHANGED <<s, err, open>>
    /\ UNCHANGED <<op, config, conn, id, user, result>>
    /\ UNCHANGED loaderVars
    /\ UNCHANGED cmd

\* if config.UseStartTLS { err = conn.StartTLS(tlsConfig) ... }
StartTLS ==
    /\ pc = "starttls"
    /\ LET tlsCall == StartTLSCall(conn, extractHostname(DialAddr(config)), ~config.VerifySSL)
       IN  \/ /\ calls' = Append(calls, tlsCall)
              /\ pc' = IF NeedsBind(config) THEN "bind" ELSE "return"
              /\ UNCHANGED <<s, err, open>>
           \/ StartTLSFailure(tlsCall)
    /\ UNCHANGED <<op, config, conn, id, user, result>>
    /\ UNCHANGED loaderVars
    /\ UNCHANGED cmd

BindFailure_NoClose(bindCall) ==
    /\ calls' = Append(calls, Failed(bindCall))
    /\ UNCHANGED open
    /\ ReturnError(BindError)

\* conn.Bind failed: conn.Close(), then return nil and the bind error
BindFailure(bindCall) ==
    /\ calls' = calls \o <<Failed(bindCall), CloseCall(conn)>>
    /\ open' = open \ {conn}
    /\ ReturnError(BindError)

\* if config.Username != "" && config.Password != "" { err = conn.Bind(...) ... }
Bind ==
    /\ pc = "bind"
    /\ LET bindCall == BindCall(conn, config.Username, config.Password)
       IN  \/ /\ calls' = Append(calls, bindCall)
              /\ pc' = "return"
              /\ UNCHANGED <<s, err, open>>
           \/ BindFailure(bindCall)
    /\ UNCHANGED <<op, config, conn, id, user, result>>
    /\ UNCHANGED loaderVars
    /\ UNCHANGED cmd

\* searcher.conn = conn; return searcher, nil
Return ==
    /\ pc = "return"
    /\ s' = Searcher(config, conn)
    /\ err' = NilError
    /\ pc' = "idle"
    /\ UNCHANGED <<op, config, conn, id, user, result, open, calls>>
    /\ UNCHANGED loaderVars
    /\ UNCHANGED cmd

----------------------------------------------------------------------------
(* Searcher.Close *)

Close ==
    /\ pc = "idle"
    /\ ~s.nil
    /\ op' = "Close"
    /\ IF s.conn # 0
       THEN /\ calls' = <<CloseCall(s.conn)>>
            /\ open' = open \ {s.conn}
       ELSE /\ calls' = <<>>
            /\ UNCHANGED open
    /\ err' = NilError
    /\ config' = ZeroConfig
    /\ conn' = 0
    /\ id' = NoIdentifier
    /\ user' = EmptyUserRecord
    /\ result' = NoResult
    /\ UNCHANGED <<pc, s>>
    /\ UNCHANGED loaderVars
    /\ UNCHANGED cmd

----------------------------------------------------------------------------
(* Searcher.GetUser *)

NotConnectedError == Errorf(<<"LDAP connection not established">>)

UnknownTypeError(i) == Errorf(<<"unknown identifier type: ">> \o Itoa(i.Type))

SearchError == Errorf(<<"LDAP search failed: ", "search error">>)

NotFoundError_Escaped(i) ==
    Errorf(<<"user not found in LDAP directory: ">> \o EscapeFilter(i.Value))

NotFoundError(i) == Errorf(<<"user not found in LDAP directory: ">> \o i.Value)

BuildFilter_DefaultUID(i) ==
    CASE i.Type = IDTEmail -> [ok |-> TRUE, filter |-> <<"(mail=">> \o EscapeFilter(i.Value) \o <<")">>]
      [] OTHER             -> [ok |-> TRUE, filter |-> <<"(uid=">> \o EscapeFilter(i.Value) \o <<")">>]

\* the switch on id.Type: the filter, or no filter for an unknown type
BuildFilter(i) ==
    CASE i.Type = IDTUID   -> [ok |-> TRUE, filter |-> <<"(uid=">> \o EscapeFilter(i.Value) \o <<")">>]
      [] i.Type = IDTEmail -> [ok |-> TRUE, filter |-> <<"(mail=">> \o EscapeFilter(i.Value) \o <<")">>]
      [] OTHER             -> [ok |-> FALSE, filter |-> <<>>]

\* the base DN argument of ldap.NewSearchRequest
SearchBase(c) == HardCodedBase

NewSearchRequest(c, filter) ==
    [BaseDN |-> SearchBase(c), Filter |-> filter, Attributes |-> RequestedAttrs]

FirstEntry_Last(entries) == entries[Len(entries)]

\* entry := result.Entries[0]
FirstEntry(entries) == entries[1]

GetUserOutcome_TypeFirst(sr, i, r) ==
    LET f == BuildFilter(i)
        unsent(e) == [sent |-> FALSE, request |-> NoRequest, user |-> EmptyUserRecord, err |-> e]
        sent(u, e) == [sent |-> TRUE, request |-> NewSearchRequest(sr.config, f.filter),
                       user |-> u, err |-> e]
    IN  IF ~f.ok THEN unsent(UnknownTypeError(i))
        ELSE IF sr.conn = 0 THEN unsent(NotConnectedError)
        ELSE IF ~r.ok THEN sent(EmptyUserRecord, SearchError)
        ELSE IF Len(r.entries) = 0 THEN sent(EmptyUserRecord, NotFoundError(i))
        ELSE sent(UserFromEntry(FirstEntry(r.entries)), NilError)

\* what GetUser does for searcher sr and identifier i, when conn.Search
\* would answer r: whether a request is sent, which one, and what is returned
GetUserOutcome(sr, i, r) ==
    LET f == BuildFilter(i)
        unsent(e) == [sent |-> FALSE, request |-> NoRequest, user |-> EmptyUserRecord, err |-> e]
        sent(u, e) == [sent |-> TRUE, request |-> NewSearchRequest(sr.config, f.filter),
                       user |-> u, err |-> e]
    IN  IF sr.conn = 0 THEN unsent(NotConnectedError)
        ELSE IF ~f.ok THEN unsent(UnknownTypeError(i))
        ELSE IF ~r.ok THEN sent(EmptyUserRecord, SearchError)
        ELSE IF Len(r.entries) = 0 THEN sent(EmptyUserRecord, NotFoundError(i))
        ELSE sent(UserFromEntry(FirstEntry(r.entries)), NilError)

GetUser(i) ==
    /\ pc = "idle"
    /\ ~s.nil
    /\ op' = "GetUser"
    /\ id' = i
    /\ \E r \in SearchResults :
          \* a search on a closed connection fails in the library
          /\ s.conn \notin open => r = SearchFailed
          /\ LET out == GetUserOutcome(s, i, r)
                 searchCall == SearchCall(s.conn, out.request)
             IN  /\ calls' = IF ~out.sent THEN <<>>
                            ELSE IF r.ok THEN <<searchCall>> ELSE <<Failed(searchCall)>>
                 /\ result' = IF out.sent THEN r ELSE NoResult
                 /\ user' = out.user
                 /\ err' = out.err
    /\ config' = ZeroConfig
    /\ conn' = 0
    /\ UNCHANGED <<pc, s, open>>
    /\ UNCHANGED loaderVars
    /\ UNCHANGED cmd

----------------------------------------------------------------------------
(* Package initialization and the helpers of the loader *)

\* func init() { DefaultConfig = loadConfigFromAll() }
PackageInit ==
    /\ pc = "start"
    /\ DefaultConfig' = loadConfigFromAll
    /\ pc' = "idle"
    /\ UNCHANGED <<op, config, conn, s, err, id, user, result, open, calls, environ, files, ret,
                   cmd>>

\* a call of getEnvironment()
CallGetEnvironment ==
    /\ pc = "idle"
    /\ ret' = Returns("getEnvironment", <<>>, getEnvironment)
    /\ UNCHANGED <<pc, op, config, conn, s, err, id, user, result, open, calls,
                   environ, files, DefaultConfig, cmd>>

\* a call of readSecretFile(path)
CallReadSecretFile(path) ==
    /\ pc = "idle"
    /\ ret' = Returns("readSecretFile", path, readSecretFile(path))
    /\ UNCHANGED <<pc, op, config, conn, s, err, id, user, result, open, calls,
                   environ, files, DefaultConfig, cmd>>

\* a call of getPasswordFromEnv()
CallGetPasswordFromEnv ==
    /\ pc = "idle"
    /\ ret' = Returns("getPasswordFromEnv", <<>>, getPasswordFromEnv)
    /\ UNCHANGED <<pc, op, config, conn, s, err, id, user, result, open, calls,
                   environ, files, DefaultConfig, cmd>>

\* a call of extractHostname(ldapURL)
CallExtractHostname(ldapURL) ==
    /\ pc = "idle"
    /\ ret' = Returns("extractHostname", ldapURL, extractHostname(ldapURL))
    /\ UNCHANGED <<pc, op, config, conn, s, err, id, user, result, open, calls,
                   environ, files, DefaultConfig, cmd>>

----------------------------------------------------------------------------
(* NewSearcherWithDefaults *)

NoPasswordError == Errorf(<<"no LDAP password found in secrets or environment variables">>)
NoURLError == Errorf(<<"no LDAP_URL found in environment variables">>)

\* return nil, e before NewSearcher is reached
RejectDefaults(e) ==
    /\ op' = "NewSearcherWithDefaults"
    /\ ReturnError(e)
    /\ config' = ZeroConfig
    /\ conn' = 0
    /\ calls' = <<>>
    /\ id' = NoIdentifier
    /\ user' = EmptyUserRecord
    /\ result' = NoResult
    /\ open' = {}
    /\ UNCHANGED loaderVars
    /\ UNCHANGED cmd

DefaultsError_ServersFirst(c) ==
    IF Len(c.LdapServers) = 0 THEN NoURLError
    ELSE IF c.Password = <<>> THEN NoPasswordError
    ELSE NilError

\* the two checks of NewSearcherWithDefaults: the password, then the server list
DefaultsError(c) ==
    IF c.Password = <<>> THEN NoPasswordError
    ELSE IF Len(c.LdapServers) = 0 THEN NoURLError
    ELSE NilError

NewSearcherWithDefaults_Reloads ==
    /\ pc = "idle"
    /\ IF ~DefaultsError(loadConfigFromAll).nil THEN RejectDefaults(DefaultsError(loadConfigFromAll))
       ELSE NewSearcher(loadConfigFromAll)

\* the checks on DefaultConfig, then NewSearcher(DefaultConfig), whose steps
\* are Dial, StartTLS, Bind and Return
NewSearcherWithDefaults ==
    /\ pc = "idle"
    /\ IF ~DefaultsError(DefaultConfig).nil THEN RejectDefaults(DefaultsError(DefaultConfig))
       ELSE NewSearcher(DefaultConfig)

----------------------------------------------------------------------------

Next ==
    \/ \E c \in Configs : NewSearcher(c)
    \/ Dial
    \/ StartTLS
    \/ Bind
    \/ Return
    \/ Close
    \/ \E i \in Identifiers : GetUser(i)

Spec == Init /\ [][Next]_vars

TypeOK ==
    /\ pc \in {"start", "idle", "dial", "starttls", "bind", "return"}
    /\ op \in {"none", "NewSearcher", "NewSearcherWithDefaults", "Close", "GetUser"}
    /\ conn \in {0, NewConn}
    /\ open \subseteq {NewConn}
    /\ s.conn \in {0, NewConn}

----------------------------------------------------------------------------
(* The filter of GetUser, for identifier values over every structural      *)
(* character: lookups on a Searcher that NewSearcher has just connected    *)

FilterIdentifiers ==
    LET FilterChars == {"a", "*", "(", ")", "\\", NUL}
    IN  [Type : Types, Value : StringsOver(FilterChars, MaxFilterValueLen)]

\* the Config of the connected Searcher
FilterConfig ==
    [LdapServers |-> <<Addr1, Addr2>>, Username |-> "", Password |-> <<>>,
     BaseDN |-> HardCodedBase, UseStartTLS |-> FALSE, VerifySSL |-> FALSE]

\* the state in which NewSearcher(FilterConfig) has returned its Searcher
InitFilter ==
    /\ pc = "idle"
    /\ op = "NewSearcher"
    /\ config = FilterConfig
    /\ conn = NewConn
    /\ s = Searcher(FilterConfig, NewConn)
    /\ err = NilError
    /\ id = NoIdentifier
    /\ user = EmptyUserRecord
    /\ result = NoResult
    /\ open = {NewConn}
    /\ calls = <<DialCall(Addr1, NewConn)>>
    /\ environ = NoEnv
    /\ files = NoFiles
    /\ DefaultConfig = ZeroConfig
    /\ ret = NoReturn
    /\ cmd = NoCommand

\* one lookup on the Searcher NewSearcher returned
NextFilter == \E i \in FilterIdentifiers : op = "NewSearcher" /\ GetUser(i)

SpecFilter == InitFilter /\ [][NextFilter]_vars

----------------------------------------------------------------------------
(* The loader, for the environments and file systems of LoadInputs: the    *)
(* package is initialized, then the caller uses NewSearcherWithDefaults    *)
(* and the helpers                                                         *)

\* the entry of one environment name, with nothing but the given fields
LocalOnly(entry) == [n \in {"local"} |-> entry]

\* LDAP_URL, LDAP_BIND_DN and LDAP_BASE_DN against the fields of the structured entry
FieldInputs ==
    LET FieldEnvs ==
            {[NoEnv EXCEPT !["LDAP_URL"] = u, !["LDAP_BIND_DN"] = b, !["LDAP_BASE_DN"] = d,
                           !["LDAP_PASSWORD"] = p] :
                u \in {Unset("LDAP_URL"), SetTo(Addr1)},
                b \in {Unset("LDAP_BIND_DN"), SetTo("u")},
                d \in {Unset("LDAP_BASE_DN"), SetTo("dc=example,dc=com")},
                p \in {Unset("LDAP_PASSWORD"), SetTo(<<"p">>)}}
        FieldFiles ==
            {NoFiles} \cup
            {[NoFiles EXCEPT ![ConfigYaml] =
                  YamlFile(LocalOnly(EnvConfig(sv, un, bd, FALSE, FALSE, <<>>)))] :
                sv \in {<<>>, <<Addr2>>}, un \in {"", "y"}, bd \in {"", HardCodedBase}}
    IN  {[environ |-> e, files |-> f] : e \in FieldEnvs, f \in FieldFiles}

\* the three sources of the password
SecretFiles(name) ==
    {Missing, Denied, TextFile(<<" ", "\n">>), TextFile(<<" ", name, " ", name, "\n">>)}

PasswordInputs ==
    LET PasswordEnvs ==
            {[NoEnv EXCEPT !["LDAP_PASSWORD_FILE"] = f, !["LDAP_PASSWORD"] = p, !["HOME"] = h] :
                f \in {Unset("LDAP_PASSWORD_FILE"), SetTo(EnvPw)},
                p \in {Unset("LDAP_PASSWORD"), SetTo(<<"p">>)},
                h \in {Unset("HOME"), SetTo(<<"/", "h">>)}}
        PasswordFiles ==
            {[p \in Paths |-> IF p = ConfigYaml THEN y
                              ELSE IF p \in {HomePw(h) : h \in HomeDirs} THEN sy
                              ELSE IF p = EnvPw THEN se
                              ELSE Missing] :
                y \in {Missing} \cup {YamlFile(LocalOnly(EnvConfig(<<>>, "", "", FALSE, FALSE, pf))) :
                                         pf \in {<<>>, TildePw, HomePw(<<>>)}},
                sy \in SecretFiles("y"),
                se \in SecretFiles("e")}
    IN  {[environ |-> e, files |-> f] : e \in PasswordEnvs, f \in PasswordFiles}

\* LDAP_START_TLS and LDAP_VERIFY_SSL against the flags of the structured
\* entry, with a server, a bind identity and a password to connect with
FlagValues == {"", "true", "false", "1"}

FlagInputs ==
    LET FlagEnvs ==
            {[NoEnv EXCEPT !["LDAP_URL"] = SetTo(Addr1), !["LDAP_BIND_DN"] = SetTo("u"),
                           !["LDAP_PASSWORD"] = SetTo(<<"p">>),
                           !["LDAP_START_TLS"] = t, !["LDAP_VERIFY_SSL"] = v] :
                t \in {Unset("LDAP_START_TLS")} \cup {SetTo(x) : x \in FlagValues},
                v \in {Unset("LDAP_VERIFY_SSL")} \cup {SetTo(x) : x \in FlagValues}}
        FlagFiles ==
            {NoFiles} \cup
            {[NoFiles EXCEPT ![ConfigYaml] = YamlFile(LocalOnly(EnvConfig(<<>>, "", "", t, v, <<>>)))] :
                t \in BOOLEAN, v \in BOOLEAN}
    IN  {[environ |-> e, files |-> f] : e \in FlagEnvs, f \in FlagFiles}

\* LDAP_ENV and ENV against the entries of the three candidate files; the
\* entry of environment n in candidate k has Username k and BaseDN n
CandidateFile(k) ==
    {Missing, Malformed} \cup
    {YamlFile([n \in names |-> EnvConfig(<<>>, k, n, FALSE, FALSE, <<>>)]) :
        names \in {{}, {"local"}, {"dev", "prod"}}}

CandidateInputs ==
    LET CandidateEnvs ==
            {[NoEnv EXCEPT !["LDAP_ENV"] = l, !["ENV"] = e, !["HOME"] = h] :
                l \in {Unset("LDAP_ENV"), SetTo(""), SetTo("prod")},
                e \in {Unset("ENV"), SetTo("dev")},
                h \in {Unset("HOME"), SetTo(<<"/", "h">>)}}
        CandidateFiles ==
            {[p \in Paths |-> IF p = ConfigYaml THEN f1
                              ELSE IF p = ConfigsYaml THEN f2
                              ELSE IF p \in {HomeYaml(h) : h \in HomeDirs} THEN f3
                              ELSE Missing] :
                f1 \in CandidateFile("1"), f2 \in CandidateFile("2"), f3 \in CandidateFile("3")}
    IN  {[environ |-> e, files |-> f] : e \in CandidateEnvs, f \in CandidateFiles}

LoadInputs == FieldInputs \cup PasswordInputs \cup FlagInputs \cup CandidateInputs

\* the process has started and the package is not yet initialized
InitLoad ==
    /\ pc = "start"
    /\ op = "none"
    /\ config = ZeroConfig
    /\ conn = 0
    /\ s = NilSearcher
    /\ err = NilError
    /\ id = NoIdentifier
    /\ user = EmptyUserRecord
    /\ result = NoResult
    /\ open = {}
    /\ calls = <<>>
    /\ \E in \in LoadInputs : environ = in.environ /\ files = in.files
    /\ DefaultConfig = ZeroConfig
    /\ ret = NoReturn
    /\ cmd = NoCommand

NextLoad ==
    \/ PackageInit
    \/ CallGetEnvironment
    \/ \E path \in SecretPaths : CallReadSecretFile(path)
    \/ CallGetPasswordFromEnv
    \/ NewSearcherWithDefaults
    \/ Dial
    \/ StartTLS
    \/ Bind
    \/ Return

SpecLoad == InitLoad /\ [][NextLoad]_vars

----------------------------------------------------------------------------
(* extractHostname, for the server URLs of HostURLs *)

Hosts ==
    LET HostChars == {"h", ".", "/"}
    IN  StringsOver(HostChars, MaxHostLen)
Ports == {<<"1">>, <<"3", "8", "9">>}

HostURLs ==
    UNION {{h, SchemeLdap \o h, SchemeLdaps \o h} : h \in Hosts} \cup
    UNION {{h \o <<":">> \o p, SchemeLdap \o h \o <<":">> \o p, SchemeLdaps \o h \o <<":">> \o p} :
              h \in Hosts, p \in Ports}

NextHost == \E ldapURL \in HostURLs : CallExtractHostname(ldapURL)

SpecHost == Init /\ [][NextHost]_vars

----------------------------------------------------------------------------
(* The ldapcheck command: one run of main, for the command lines of        *)
(* CommandLines and the environments of MainInputs                         *)

\* strings.Contains for a one-character needle
Contains(str, c) == \E k \in 1..Len(str) : str[k] = c

ProgramName == <<"ldapcheck">>
CommandLines ==
    {<<ProgramName>>} \cup
    {<<ProgramName, uid>> : uid \in {<<>>, <<"a">>, <<"a", "@", "a">>}}

\* the Identifier main builds from its argument
MainIdentifier(uid) ==
    IF Contains(uid, "@") THEN [Type |-> IDTEmail, Value |-> uid]
    ELSE [Type |-> IDTUID, Value |-> uid]

\* log.Fatalf: the message on standard error, then os.Exit(1); deferred
\* calls do not run
Fatalf(msg) ==
    cmd' = [cmd EXCEPT !.stderr = Append(@, msg), !.exit = 1, !.at = "exited"]

\* what main prints between NewSearcherWithDefaults and GetUser
SearchingLines(uid) ==
    <<<<"LDAP connection successful! Searching for: ">> \o uid,
      (IF Contains(uid, "@") THEN <<"Searching by email: ">> ELSE <<"Searching by UID: ">>) \o uid>>

\* what main prints for the record GetUser returned
RecordLines(u) ==
    <<<<"Found user: ", u.UID, " (", u.Email, ")">>,
      <<"Name: ", u.DisplayName, " ", u.Surname>>,
      <<"Title: ", u.Title>>,
      <<"Location: ", u.RhatLocation>>,
      <<"Cost Center: ", u.CostCenter>>>>
        \o (IF u.RhatTermDate # "" THEN <<<<"  Terminated: ", u.RhatTermDate>>>> ELSE <<>>)

\* if len(os.Args) < 2 { fmt.Println(usage); os.Exit(1) }
MainArgs ==
    /\ cmd.at = "start"
    /\ pc = "idle"
    /\ IF Len(cmd.args) < 2
       THEN cmd' = [cmd EXCEPT !.stdout = Append(@, <<"Usage: ldapcheck <uid_or_email>">>),
                               !.exit = 1, !.at = "exited"]
       ELSE cmd' = [cmd EXCEPT !.at = "create"]
    /\ UNCHANGED <<pc, op, config, conn, s, err, id, user, result, open, calls>>
    /\ UNCHANGED loaderVars

\* s, err := ldap_redhat.NewSearcherWithDefaults()
MainNewSearcher ==
    /\ cmd.at = "create"
    /\ op = "none"
    /\ NewSearcherWithDefaults

\* if err != nil { log.Fatalf(...) }; defer s.Close(); the two lines printed
MainCreated ==
    /\ cmd.at = "create"
    /\ op # "none"
    /\ pc = "idle"
    /\ IF ~err.nil
       THEN Fatalf(<<"Failed to create searcher: ">> \o err.msg)
       ELSE cmd' = [cmd EXCEPT !.stdout = @ \o SearchingLines(cmd.args[2]), !.at = "lookup"]
    /\ UNCHANGED <<pc, op, config, conn, s, err, id, user, result, open, calls>>
    /\ UNCHANGED loaderVars

\* user, err := s.GetUser(ctx, id)
MainGetUser ==
    /\ cmd.at = "lookup"
    /\ op # "GetUser"
    /\ GetUser(MainIdentifier(cmd.args[2]))

\* if err != nil { log.Fatalf(...) }; the record is printed
MainLooked ==
    /\ cmd.at = "lookup"
    /\ op = "GetUser"
    /\ IF ~err.nil
       THEN Fatalf(<<"User lookup failed: ">> \o err.msg)
       ELSE cmd' = [cmd EXCEPT !.stdout = @ \o RecordLines(user), !.at = "deferred"]
    /\ UNCHANGED <<pc, op, config, conn, s, err, id, user, result, open, calls>>
    /\ UNCHANGED loaderVars

\* main returns: the deferred s.Close() runs
MainDeferredClose ==
    /\ cmd.at = "deferred"
    /\ op = "GetUser"
    /\ Close

\* the process exits with code 0
MainReturn ==
    /\ cmd.at = "deferred"
    /\ op = "Close"
    /\ cmd' = [cmd EXCEPT !.exit = 0, !.at = "exited"]
    /\ UNCHANGED <<pc, op, config, conn, s, err, id, user, result, open, calls>>
    /\ UNCHANGED loaderVars

MainInputs == FieldInputs \cup FlagInputs

\* the process has started with its command line
InitMain ==
    /\ pc = "start"
    /\ op = "none"
    /\ config = ZeroConfig
    /\ conn = 0
    /\ s = NilSearcher
    /\ err = NilError
    /\ id = NoIdentifier
    /\ user = EmptyUserRecord
    /\ result = NoResult
    /\ open = {}
    /\ calls = <<>>
    /\ \E in \in MainInputs : environ = in.environ /\ files = in.files
    /\ DefaultConfig = ZeroConfig
    /\ ret = NoReturn
    /\ \E args \in CommandLines : cmd = [NoCommand EXCEPT !.args = args, !.at = "start"]

NextMain ==
    \/ PackageInit
    \/ MainArgs
    \/ MainNewSearcher
    \/ Dial
    \/ StartTLS
    \/ Bind
    \/ Return
    \/ MainCreated
    \/ MainGetUser
    \/ MainLooked
    \/ MainDeferredClose
    \/ MainReturn

SpecMain == InitMain /\ [][NextMain]_vars

----------------------------------------------------------------------------
(* NewSearcherFromEnv, for the environments of EnvInputs *)

EnvConfigLiteral_SkipsEmptyURL ==
    [LdapServers |-> IF Getenv("LDAP_URL") = <<>> THEN <<>> ELSE <<Getenv("LDAP_URL")>>,
     Username |-> Getenv("LDAP_BIND_DN"),
     Password |-> getPasswordFromEnv,
     BaseDN |-> Getenv("LDAP_BASE_DN"),
     UseStartTLS |-> Getenv("LDAP_START_TLS") = "true",
     VerifySSL |-> Getenv("LDAP_VERIFY_SSL") # "false"]

\* the Config literal of NewSearcherFromEnv
EnvConfigLiteral ==
    [LdapServers |-> <<Getenv("LDAP_URL")>>,
     Username |-> Getenv("LDAP_BIND_DN"),
     Password |-> getPasswordFromEnv,
     BaseDN |-> Getenv("LDAP_BASE_DN"),
     UseStartTLS |-> Getenv("LDAP_START_TLS") = "true",
     VerifySSL |-> Getenv("LDAP_VERIFY_SSL") # "false"]

\* return NewSearcher(config), whose steps are Dial, StartTLS, Bind and Return
NewSearcherFromEnv == NewSearcher(EnvConfigLiteral)

EnvInputs == FieldInputs \cup PasswordInputs \cup FlagInputs

InitEnv ==
    /\ pc = "start"
    /\ op = "none"
    /\ config = ZeroConfig
    /\ conn = 0
    /\ s = NilSearcher
    /\ err = NilError
    /\ id = NoIdentifier
    /\ user = EmptyUserRecord
    /\ result = NoResult
    /\ open = {}
    /\ calls = <<>>
    /\ \E in \in EnvInputs : environ = in.environ /\ files = in.files
    /\ DefaultConfig = ZeroConfig
    /\ ret = NoReturn
    /\ cmd = NoCommand

NextEnv ==
    \/ PackageInit
    \/ NewSearcherFromEnv
    \/ Dial
    \/ StartTLS
    \/ Bind
    \/ Return

SpecEnv == InitEnv /\ [][NextEnv]_vars

----------------------------------------------------------------------------
(* DefaultConfig after initialization: the environment and the files       *)
(* change, DefaultConfig is assigned, NewSearcherWithDefaults is called    *)

\* os.Setenv(name, v) and os.Unsetenv(name), where v is the value the
\* environments of the model give the variable
ChangedValue == [n \in {"LDAP_URL", "LDAP_PASSWORD"} |-> IF n = "LDAP_URL" THEN Addr1 ELSE <<"p">>]

Setenv(name) ==
    /\ pc = "idle"
    /\ environ' = [environ EXCEPT ![name] = SetTo(ChangedValue[name])]
    /\ UNCHANGED <<pc, op, config, conn, s, err, id, user, result, open, calls,
                   files, DefaultConfig, ret, cmd>>

Unsetenv(name) ==
    /\ pc = "idle"
    /\ environ' = [environ EXCEPT ![name] = Unset(name)]
    /\ UNCHANGED <<pc, op, config, conn, s, err, id, user, result, open, calls,
                   files, DefaultConfig, ret, cmd>>

\* the configuration file that is written, and its removal
WrittenConfig == YamlFile(LocalOnly(EnvConfig(<<Addr2>>, "y", "", FALSE, FALSE, <<>>)))

WriteFile(path, f) ==
    /\ pc = "idle"
    /\ files' = [files EXCEPT ![path] = f]
    /\ UNCHANGED <<pc, op, config, conn, s, err, id, user, result, open, calls,
                   environ, DefaultConfig, ret, cmd>>

\* DefaultConfig = Config{...}
AssignedConfigs ==
    {ZeroConfig,
     [ZeroConfig EXCEPT !.LdapServers = <<Addr1>>, !.Username = "test"],
     [ZeroConfig EXCEPT !.Password = <<"p">>, !.Username = "test"],
     [ZeroConfig EXCEPT !.LdapServers = <<Addr1>>, !.Username = "test", !.Password = <<"p">>,
                        !.UseStartTLS = TRUE]}

AssignDefaultConfig(c) ==
    /\ pc = "idle"
    /\ DefaultConfig' = c
    /\ UNCHANGED <<pc, op, config, conn, s, err, id, user, result, open, calls,
                   environ, files, ret, cmd>>

DefaultsInputs ==
    {[environ |-> [NoEnv EXCEPT !["LDAP_URL"] = u, !["LDAP_PASSWORD"] = p], files |-> f] :
        u \in {Unset("LDAP_URL"), SetTo(Addr1)},
        p \in {Unset("LDAP_PASSWORD"), SetTo(<<"p">>)},
        f \in {NoFiles, [NoFiles EXCEPT ![ConfigYaml] = WrittenConfig]}}

InitDefaults ==
    /\ pc = "start"
    /\ op = "none"
    /\ config = ZeroConfig
    /\ conn = 0
    /\ s = NilSearcher
    /\ err = NilError
    /\ id = NoIdentifier
    /\ user = EmptyUserRecord
    /\ result = NoResult
    /\ open = {}
    /\ calls = <<>>
    /\ \E in \in DefaultsInputs : environ = in.environ /\ files = in.files
    /\ DefaultConfig = ZeroConfig
    /\ ret = NoReturn
    /\ cmd = NoCommand

NextDefaults ==
    \/ PackageInit
    \/ \E name \in DOMAIN ChangedValue : Setenv(name)
    \/ \E name \in DOMAIN ChangedValue : Unsetenv(name)
    \/ \E f \in {Missing, WrittenConfig} : WriteFile(ConfigYaml, f)
    \/ \E c \in AssignedConfigs : AssignDefaultConfig(c)
    \/ NewSearcherWithDefaults
    \/ Dial
    \/ StartTLS
    \/ Bind
    \/ Return

SpecDefaults == InitDefaults /\ [][NextDefaults]_vars

----------------------------------------------------------------------------
(* Properties *)

\* NewSearcher has returned
Returned == pc = "idle" /\ op = "NewSearcher"

\* the calls of the given name that the library reported as succeeded / failed
Succeeded(name) == {i \in CallsNamed(name) : calls[i].ok}
FailedCalls(name) == {i \in CallsNamed(name) : ~calls[i].ok}

\* the connection was closed after call i of the log
ClosedAfter(i, cn) == \E j \in CallsNamed("Close") : j > i /\ calls[j].conn = cn

\* C1: when the dial succeeded, UseStartTLS is set and StartTLS fails,
\* NewSearcher closes the connection it opened before it returns, and it
\* returns the TLS error with a nil Searcher; no call of NewSearcher ends
\* with an error and a connection that is still open.
C1_StartTLSFailureClosesConn ==
    Returned =>
        /\ \A i \in FailedCalls("StartTLS") :
              /\ config.UseStartTLS
              /\ Succeeded("DialURL") # {}
              /\ calls[i].conn = conn
              /\ ClosedAfter(i, conn)
              /\ conn \notin open
              /\ s.nil
              /\ err = Errorf(<<"failed to start TLS: ", "tls error">>)
        /\ ~err.nil => conn \notin open

C1_Witness == Returned /\ FailedCalls("StartTLS") # {} /\ conn # 0

\* C2: when the dial succeeded, Username and Password are both non-empty
\* and the Bind fails, NewSearcher closes the connection it opened before
\* it returns, and it returns the bind error with a nil Searcher.
C2_BindFailureClosesConn ==
    Returned =>
        \A i \in FailedCalls("Bind") :
            /\ config.Username # "" /\ config.Password # <<>>
            /\ Succeeded("DialURL") # {}
            /\ calls[i].conn = conn
            /\ ClosedAfter(i, conn)
            /\ conn \notin open
            /\ s.nil
            /\ err = Errorf(<<"failed to bind to LDAP: ", "bind error">>)

C2_Witness == Returned /\ FailedCalls("Bind") # {} /\ conn # 0

\* C3: NewSearcher with an empty LdapServers list returns a non-nil
\* Searcher that holds no connection and a nil error, and makes no library
\* call, whatever the other fields are; Close on that Searcher makes no
\* library call either and returns nil.
C3_EmptyConfigNoOp ==
    /\ (Returned /\ Len(config.LdapServers) = 0) =>
          /\ ~s.nil
          /\ s.conn = 0
          /\ s.config = config
          /\ err.nil
          /\ calls = <<>>
    /\ (op = "Close" /\ Len(s.config.LdapServers) = 0) =>
          /\ s.conn = 0
          /\ calls = <<>>
          /\ err.nil

C3_Witness ==
    /\ op = "Close" /\ ~s.nil /\ Len(s.config.LdapServers) = 0
    /\ s.config.Username # "" /\ s.config.UseStartTLS

\* C4: when LdapServers is non-empty and the dial of LdapServers[0]
\* fails, NewSearcher returns a nil Searcher and the connection error whose
\* message carries that address, and attempts neither StartTLS nor Bind.
C4_DialFailure ==
    (Returned /\ FailedCalls("DialURL") # {}) =>
        /\ s.nil
        /\ err = Errorf(<<"failed to connect to LDAP server ">>
                            \o config.LdapServers[1] \o <<": ", "dial error">>)
        /\ CallsNamed("StartTLS") = {}
        /\ CallsNamed("Bind") = {}
        /\ conn = 0

C4_Witness ==
    /\ Returned /\ FailedCalls("DialURL") # {}
    /\ config.UseStartTLS /\ config.Username # "" /\ config.Password # <<>>

\* C5: one call of NewSearcher makes at most one dial, at most one StartTLS
\* and at most one Bind; the dial is to LdapServers[0]; after a failed
\* call nothing follows but the Close of the connection.
C5_SingleAttempt ==
    op = "NewSearcher" =>
        /\ \A name \in {"DialURL", "StartTLS", "Bind"} : Cardinality(CallsNamed(name)) <= 1
        /\ \A i \in CallsNamed("DialURL") : calls[i].addr = config.LdapServers[1]
        /\ \A i \in 1..Len(calls) :
              ~calls[i].ok => /\ pc = "idle"
                              /\ \A j \in (i + 1)..Len(calls) : calls[j].name = "Close"

C5_Witness ==
    /\ Returned /\ FailedCalls("DialURL") # {}
    /\ Len(config.LdapServers) > 1
    /\ config.LdapServers[2] # config.LdapServers[1]

\* the connection is ready for the Bind: dialled, and upgraded when requested
ReadyForBind ==
    /\ Succeeded("DialURL") # {}
    /\ config.UseStartTLS => Succeeded("StartTLS") # {}

\* C6: NewSearcher attempts a Bind exactly when the dial (and StartTLS, when
\* requested) succeeded and Username and Password are both non-empty; when
\* either is empty there is no Bind and NewSearcher succeeds with the
\* connection it opened, unauthenticated.
C6_BindIffCredentials ==
    Returned =>
        /\ CallsNamed("Bind") # {}
              <=> (ReadyForBind /\ config.Username # "" /\ config.Password # <<>>)
        /\ (ReadyForBind /\ (config.Username = "" \/ config.Password = <<>>)) =>
              /\ err.nil
              /\ s = Searcher(config, conn)
              /\ conn \in open

C6_Witness ==
    /\ Returned /\ ReadyForBind /\ CallsNamed("Bind") = {}
    /\ config.Username # "" /\ config.Password = <<>>

\* C7: GetUser on a Searcher that holds no connection returns the error
\* "LDAP connection not established" and the empty UserRecord and sends no
\* search request; the check comes before the one on the identifier type,
\* so an unknown type (999) gets the same error.
C7_NotConnectedFirst ==
    (op = "GetUser" /\ s.conn = 0) =>
        /\ err = Errorf(<<"LDAP connection not established">>)
        /\ user = EmptyUserRecord
        /\ calls = <<>>
        /\ ~result.called

C7_Witness == op = "GetUser" /\ s.conn = 0 /\ id.Type = 999

\* C8: GetUser on a connected Searcher with an identifier type that is
\* neither IDTUID (0) nor IDTEmail (1) returns the error that carries the
\* type value in decimal and the empty UserRecord, and sends no search
\* request.
C8_UnknownTypeRejected ==
    (op = "GetUser" /\ s.conn # 0 /\ id.Type \notin {0, 1}) =>
        /\ err = Errorf(<<"unknown identifier type: ">> \o Itoa(id.Type))
        /\ id.Type = 999 => err.msg = <<"unknown identifier type: ", "9", "9", "9">>
        /\ user = EmptyUserRecord
        /\ calls = <<>>
        /\ ~result.called

C8_Witness == op = "GetUser" /\ s.conn \in open /\ id.Type = 999 /\ id.Value # <<>>

\* C9: when the search succeeds with zero entries, GetUser returns the
\* error "user not found in LDAP directory: " followed by the original
\* Identifier.Value, unescaped, also when the filter holds the value in
\* escaped form.
C9_NotFoundCarriesRawValue ==
    (op = "GetUser" /\ result.called /\ result.ok /\ Len(result.entries) = 0) =>
        /\ err = Errorf(<<"user not found in LDAP directory: ">> \o id.Value)
        /\ user = EmptyUserRecord

C9_Witness ==
    /\ op = "GetUser" /\ result.called /\ result.ok /\ Len(result.entries) = 0
    /\ EscapeFilter(id.Value) # id.Value
    /\ calls[1].request.Filter = <<"(uid=">> \o EscapeFilter(id.Value) \o <<")">>

\* C10: the search request GetUser sends has the Searcher's Config.BaseDN
\* as the root of the searched subtree, for every Config.
C10_SearchUsesConfigBaseDN ==
    op = "GetUser" =>
        \A i \in CallsNamed("Search") : calls[i].request.BaseDN = s.config.BaseDN

----------------------------------------------------------------------------
(* Properties of the filter *)

\* the character an escape sequence of the filter syntax stands for
EscapeCodes ==
    {<<"5", "c", "\\">>, <<"2", "a", "*">>, <<"2", "8", "(">>, <<"2", "9", ")">>, <<"0", "0", NUL>>}

\* a filter value is well formed when it holds no structural character but
\* the backslash, and every backslash starts one of the escape sequences
RECURSIVE WellEscaped(_)
WellEscaped(b) ==
    IF b = <<>> THEN TRUE
    ELSE IF b[1] = "\\"
         THEN /\ Len(b) >= 3
              /\ \E e \in EscapeCodes : e[1] = b[2] /\ e[2] = b[3]
              /\ WellEscaped(SubSeq(b, 4, Len(b)))
         ELSE /\ b[1] \notin {"*", "(", ")", NUL}
              /\ WellEscaped(Tail(b))

\* the value a well-formed filter value matches literally
RECURSIVE Unescape(_)
Unescape(b) ==
    IF b = <<>> THEN <<>>
    ELSE IF b[1] = "\\"
         THEN <<(CHOOSE e \in EscapeCodes : e[1] = b[2] /\ e[2] = b[3])[3]>>
                  \o Unescape(SubSeq(b, 4, Len(b)))
         ELSE <<b[1]>> \o Unescape(Tail(b))

\* the filter of the request is one equality test on attr: "(attr=" then a
\* well-formed value that matches v literally, then ")"
SingleEqualityTest(filter, open_, v) ==
    /\ Len(filter) >= 2
    /\ filter[1] = open_
    /\ filter[Len(filter)] = ")"
    /\ LET body == SubSeq(filter, 2, Len(filter) - 1)
       IN  /\ WellEscaped(body)
           /\ Unescape(body) = v

\* C11: for every Identifier.Value the filter GetUser sends is "(uid=<v>)"
\* for IDTUID and "(mail=<v>)" for IDTEmail, where <v> is the value with
\* every '*', '(', ')', '\' and NUL replaced by its escape sequence: <v>
\* holds no unescaped structural character, so the filter stays a single
\* equality test on the value.
C11_FilterEscaped ==
    op = "GetUser" =>
        \A k \in CallsNamed("Search") :
            /\ id.Type = IDTUID => SingleEqualityTest(calls[k].request.Filter, "(uid=", id.Value)
            /\ id.Type = IDTEmail => SingleEqualityTest(calls[k].request.Filter, "(mail=", id.Value)
            /\ id.Type \in {IDTUID, IDTEmail}

C11_Witness ==
    /\ op = "GetUser" /\ CallsNamed("Search") # {}
    /\ id.Type = IDTUID
    /\ id.Value = <<")", "(">>
    /\ calls[1].request.Filter = <<"(uid=", "\\", "2", "9", "\\", "2", "8", ")">>

----------------------------------------------------------------------------
(* Properties of the loader *)

\* the package is initialized
Loaded == pc # "start"

\* the candidate files that can be read, and those among them that parse
\* and have an entry for the resolved environment name
FoundCandidates == {k \in 1..Len(configPaths) : ~ReadFile(configPaths[k]).err}
UsableCandidates ==
    {k \in FoundCandidates :
        LET doc == files[configPaths[k]].doc
        IN  doc.ok /\ getEnvironment \in DOMAIN doc.Environments}
First(ks) == CHOOSE k \in ks : \A j \in ks : k <= j

\* the structured-file layer: the Config of the entry, the zero Config when
\* the layer contributes nothing
LayerConfig ==
    IF UsableCandidates = {} THEN ZeroConfig
    ELSE tryLoadYAMLFile(configPaths[First(UsableCandidates)], getEnvironment).config

SecretAt(path) ==
    IF path = <<>> \/ ReadFile(path).err THEN <<>> ELSE TrimSpace(files[path].text)

\* password_file of the entry the structured layer comes from
LayerPasswordFile ==
    IF UsableCandidates = {} THEN <<>>
    ELSE files[configPaths[First(UsableCandidates)]].doc.Environments[getEnvironment].PasswordFile

RECURSIVE FirstNonEmpty(_)
FirstNonEmpty(sources) ==
    IF sources = <<>> THEN <<>>
    ELSE IF Head(sources) # <<>> THEN Head(sources)
    ELSE FirstNonEmpty(Tail(sources))

\* C13: the password is the first non-empty of: the file named by the
\* structured entry's password_file, the file named by LDAP_PASSWORD_FILE,
\* LDAP_PASSWORD; a source whose file is missing, unreadable or blank after
\* trimming is skipped; with no source the password is empty.  In
\* getPasswordFromEnv too a readable LDAP_PASSWORD_FILE goes before
\* LDAP_PASSWORD.
C13_PasswordOrder ==
    /\ Loaded =>
           DefaultConfig.Password =
               FirstNonEmpty(<<SecretAt(ExpandHome(LayerPasswordFile)),
                               SecretAt(Getenv("LDAP_PASSWORD_FILE")),
                               Getenv("LDAP_PASSWORD")>>)
    /\ ret.fn = "getPasswordFromEnv" =>
           ret.val = FirstNonEmpty(<<SecretAt(Getenv("LDAP_PASSWORD_FILE")),
                                     Getenv("LDAP_PASSWORD")>>)

C13_Witness ==
    /\ Loaded
    /\ LayerPasswordFile = TildePw
    /\ files[ExpandHome(TildePw)].kind = "file"
    /\ SecretAt(ExpandHome(TildePw)) = <<>>
    /\ SecretAt(Getenv("LDAP_PASSWORD_FILE")) = <<"e", " ", "e">>
    /\ Getenv("LDAP_PASSWORD") = <<"p">>
    /\ DefaultConfig.Password = <<"e", " ", "e">>
    /\ ret.fn = "getPasswordFromEnv"
    /\ ret.val = <<"e", " ", "e">>

ResolvedName ==
    IF environ["LDAP_ENV"].set /\ environ["LDAP_ENV"].val # "" THEN environ["LDAP_ENV"].val
    ELSE IF environ["ENV"].set /\ environ["ENV"].val # "" THEN environ["ENV"].val
    ELSE "local"

\* C15: getEnvironment returns LDAP_ENV when it is non-empty, otherwise ENV
\* when it is non-empty, otherwise "local", whatever the name; when no
\* configuration file has an entry for the name, initialization completes
\* with a Configuration the structured layer adds nothing to.
C15_EnvironmentName ==
    /\ ret.fn = "getEnvironment" => ret.val = ResolvedName
    /\ (Loaded /\ \A k \in FoundCandidates :
                      ResolvedName \notin DOMAIN files[configPaths[k]].doc.Environments) =>
           DefaultConfig = FromEnv(ZeroConfig)

C15_Witness ==
    /\ Loaded
    /\ environ["LDAP_ENV"] = SetTo("prod") /\ environ["ENV"] = SetTo("dev")
    /\ ret = Returns("getEnvironment", <<>>, "prod")
    /\ \E k \in FoundCandidates : "local" \in DOMAIN files[configPaths[k]].doc.Environments
    /\ \A k \in FoundCandidates : "prod" \notin DOMAIN files[configPaths[k]].doc.Environments
    /\ DefaultConfig = ZeroConfig

\* C16 (as stated): the structured layer is taken from the first candidate
\* file found; if that file has no entry for the resolved environment name
\* the layer contributes nothing, whatever a later candidate holds.
C16_FirstFoundOnly ==
    (/\ Loaded
     /\ FoundCandidates # {}
     /\ files[configPaths[First(FoundCandidates)]].doc.ok
     /\ First(FoundCandidates) \notin UsableCandidates) =>
        DefaultConfig = FromEnv(ZeroConfig)

\* C16 (amended): the structured layer is taken from the first candidate
\* file, in the order config.yaml, configs/config.yaml,
\* $HOME/.config/ldap/config.yaml, that can be read, parses and has an entry
\* for the resolved environment name; a candidate without the entry is
\* passed over for the next one, and the layer contributes nothing only
\* when no candidate has the entry.
C16_FirstUsableCandidate ==
    Loaded =>
        DefaultConfig =
            FromEnv(IF UsableCandidates = {} THEN ZeroConfig
                    ELSE LET entry == files[configPaths[First(UsableCandidates)]].doc
                                          .Environments[getEnvironment]
                         IN  [LdapServers |-> entry.LdapServers,
                              Username |-> entry.Username,
                              Password |-> SecretAt(ExpandHome(entry.PasswordFile)),
                              BaseDN |-> entry.BaseDN,
                              UseStartTLS |-> entry.UseStartTLS,
                              VerifySSL |-> entry.VerifySSL])

C16_Witness ==
    /\ Loaded
    /\ FoundCandidates = {1, 2, 3}
    /\ UsableCandidates = {2, 3}
    /\ files[ConfigYaml].doc.ok
    /\ DefaultConfig.Username = "2"
    /\ DefaultConfig.BaseDN = getEnvironment

\* C17: NewSearcherWithDefaults returns the no-password error whenever
\* DefaultConfig.Password is empty, whatever the server list, and the
\* no-LDAP_URL error when the password is non-empty and the server list is
\* empty; in both cases the Searcher is nil and nothing is dialled.
\* (NewSearcher runs here only as the last statement of
\* NewSearcherWithDefaults.)
C17_DefaultsValidated ==
    /\ op = "NewSearcherWithDefaults" =>
           /\ pc = "idle" /\ s.nil /\ calls = <<>>
           /\ DefaultConfig.Password = <<>> \/ Len(DefaultConfig.LdapServers) = 0
           /\ err = IF DefaultConfig.Password = <<>> THEN NoPasswordError ELSE NoURLError
    /\ op = "NewSearcher" =>
           /\ DefaultConfig.Password # <<>> /\ Len(DefaultConfig.LdapServers) # 0
           /\ config = DefaultConfig

C17_Witness ==
    /\ op = "NewSearcherWithDefaults"
    /\ DefaultConfig.Password = <<>>
    /\ Len(DefaultConfig.LdapServers) = 1
    /\ err = NoPasswordError
    /\ s.nil /\ calls = <<>>

\* C18: readSecretFile returns the contents of the file without their
\* leading and trailing whitespace when the file can be read, and the empty
\* string when it cannot, on every call.
C18_SecretTrimmed ==
    ret.fn = "readSecretFile" =>
        IF files[ret.arg].kind # "file" THEN ret.val = <<>>
        ELSE LET text == files[ret.arg].text
             IN  /\ ret.val # <<>> =>
                        ret.val[1] \notin WhiteSpace /\ ret.val[Len(ret.val)] \notin WhiteSpace
                 /\ \E i \in 0..Len(text) :
                        /\ \A j \in 1..i : text[j] \in WhiteSpace
                        /\ \A j \in (i + Len(ret.val) + 1)..Len(text) : text[j] \in WhiteSpace
                        /\ i + Len(ret.val) <= Len(text)
                        /\ SubSeq(text, i + 1, i + Len(ret.val)) = ret.val

C18_Witness ==
    /\ ret.fn = "readSecretFile"
    /\ files[ret.arg] = TextFile(<<" ", "e", " ", "e", "\n">>)
    /\ ret.val = <<"e", " ", "e">>
    /\ files[Nonexistent].kind = "missing"

----------------------------------------------------------------------------
(* Properties of extractHostname and of Close *)

\* C19: for every host h without ':' and every port p, extractHostname maps
\* each of "ldap://h:p", "ldaps://h:p", "ldap://h", "ldaps://h", "h:p" and
\* "h" to h.
C19_HostnameExtracted ==
    ret.fn = "extractHostname" =>
        \A h \in Hosts :
            (\/ ret.arg \in {h, SchemeLdap \o h, SchemeLdaps \o h}
             \/ \E p \in Ports :
                    ret.arg \in {h \o <<":">> \o p, SchemeLdap \o h \o <<":">> \o p,
                                 SchemeLdaps \o h \o <<":">> \o p})
            => ret.val = h

C19_Witness ==
    /\ ret.fn = "extractHostname"
    /\ ret.arg = SchemeLdaps \o <<"h", ".">> \o <<":", "3", "8", "9">>
    /\ ret.val = <<"h", ".">>

\* C20: Close on a Searcher that was already closed, or that never held a
\* connection, performs no operation on any connection, returns nil and
\* leaves the Searcher as it was.
C20_CloseOfClosedIsNoOp ==
    [][(op' = "Close" /\ s.conn \notin open) =>
           (calls' = <<>> /\ err'.nil /\ s' = s /\ open' = open)]_vars

----------------------------------------------------------------------------
(* Properties of the record GetUser returns *)

UserFields == DOMAIN EmptyUserRecord

\* C21: GetUser never returns a partial result: whenever the returned error
\* is non-nil (not connected, unknown identifier type, search failure, not
\* found) every field of the returned UserRecord is empty; a UserRecord
\* with a non-empty field comes only with a nil error.
C21_NoPartialResult ==
    op = "GetUser" =>
        /\ ~err.nil => \A f \in UserFields : user[f] = ""
        /\ (\E f \in UserFields : user[f] # "") => err.nil
        /\ ~err.nil => \/ err = NotConnectedError
                       \/ err = UnknownTypeError(id)
                       \/ err = SearchError
                       \/ err = NotFoundError(id)

C21_Witness ==
    /\ op = "GetUser"
    /\ result.called /\ ~result.ok
    /\ err = SearchError
    /\ \A f \in UserFields : user[f] = ""

\* C24: GetUser on a connected Searcher with an Identifier of a known Type
\* whose Value is the empty string sends no search request.
C24_EmptyValueNotSearched ==
    (op = "GetUser" /\ s.conn # 0 /\ id.Type \in {IDTUID, IDTEmail} /\ id.Value = <<>>) =>
        CallsNamed("Search") = {}

\* C25: once Close has closed the connection of a Searcher, the Searcher
\* holds no live connection: a following GetUser returns the not-connected
\* error and attempts no search on the closed connection.
C25_NotConnectedAfterClose ==
    (op = "GetUser" /\ s.conn # 0 /\ s.conn \notin open) =>
        /\ err = NotConnectedError
        /\ CallsNamed("Search") = {}

\* the attribute each mapped field of the UserRecord is read from
FieldAttr ==
    [UID |-> "uid", Email |-> "mail", DisplayName |-> "cn", Surname |-> "sn",
     Title |-> "title", ManagerUID |-> "manager", CostCenter |-> "rhatCostCenter",
     RhatLocation |-> "rhatLocation", RhatJobCode |-> "rhatJobCode",
     RhatUUID |-> "rhatUUID", RhatHireDate |-> "rhatHireDate",
     RhatTermDate |-> "rhatTermDate"]

\* the first value of an attribute of an entry, "" when it has none
FirstValue(entry, attr) == IF Len(entry[attr]) = 0 THEN "" ELSE Head(entry[attr])

\* C26: when the search returns more than one entry GetUser returns a nil
\* error and a UserRecord whose every mapped field comes from the first
\* entry, whatever the later entries are and however many there are.
C26_FirstEntryOnly ==
    (op = "GetUser" /\ result.called /\ result.ok /\ Len(result.entries) > 1) =>
        /\ err.nil
        /\ \A f \in DOMAIN FieldAttr : user[f] = FirstValue(result.entries[1], FieldAttr[f])

C26_Witness ==
    /\ op = "GetUser" /\ result.called /\ result.ok
    /\ result.entries = <<EntryB, EntryA>>
    /\ err.nil
    /\ user.UID = "b" /\ user.DisplayName = ""

\* C30: in every UserRecord GetUser returns CostCenterDesc and
\* RhatAdjSvcDate are empty whatever the entry holds; each of the other
\* twelve fields is the first value of its attribute, or empty when the
\* entry lacks the attribute, which is never an error.
C30_FieldMapping ==
    op = "GetUser" =>
        /\ user.CostCenterDesc = "" /\ user.RhatAdjSvcDate = ""
        /\ (result.called /\ result.ok /\ Len(result.entries) > 0) =>
               /\ err.nil
               /\ \A f \in DOMAIN FieldAttr :
                      user[f] = FirstValue(result.entries[1], FieldAttr[f])
        /\ \A k \in CallsNamed("Search") :
               \A a \in {"rhatCostCenterDesc", "rhatAdjSvcDate"} :
                   \A j \in 1..Len(calls[k].request.Attributes) :
                       calls[k].request.Attributes[j] # a

C30_Witness ==
    /\ op = "GetUser" /\ result.called /\ result.ok
    /\ result.entries = <<EntryA>>
    /\ EntryA["rhatCostCenterDesc"] # <<>> /\ EntryA["rhatAdjSvcDate"] # <<>>
    /\ err.nil
    /\ user.CostCenterDesc = "" /\ user.RhatAdjSvcDate = ""
    /\ user.RhatTermDate = "rhatTermDate"

----------------------------------------------------------------------------
(* Properties of the order of the steps of NewSearcher *)

\* C27: in NewSearcher with UseStartTLS set, a Bind is sent only after a
\* StartTLS that succeeded on the same connection; a failed StartTLS means
\* no Bind is sent; StartTLS is performed only when UseStartTLS is set.
C27_BindAfterStartTLS ==
    op = "NewSearcher" =>
        /\ config.UseStartTLS =>
               \A b \in CallsNamed("Bind") :
                   \E k \in Succeeded("StartTLS") : k < b /\ calls[k].conn = calls[b].conn
        /\ FailedCalls("StartTLS") # {} => CallsNamed("Bind") = {}
        /\ CallsNamed("StartTLS") # {} => config.UseStartTLS

C27_Witness ==
    /\ Returned
    /\ config.UseStartTLS /\ config.Username # "" /\ config.Password # <<>>
    /\ Len(calls) = 3
    /\ calls[2].name = "StartTLS" /\ calls[2].ok
    /\ calls[3].name = "Bind" /\ calls[3].conn = calls[2].conn

----------------------------------------------------------------------------
(* Properties of the ldapcheck command *)

Exited == cmd.at = "exited"

\* C22: every run of ldapcheck that establishes a connection tears it
\* down: when the process exits no connection it opened is left open, on
\* the path where the lookup fails too, and at most one search was sent.
C22_RunTearsDown ==
    Exited =>
        /\ open = {}
        /\ Cardinality(CallsNamed("Search")) <= 1

\* C23: on every failure of ldapcheck (missing argument, searcher
\* construction failure, lookup failure) the exit code is non-zero and the
\* message is on standard error; the record's fields are on standard output
\* only on success.
C23_FailureOnStderr ==
    Exited =>
        /\ cmd.exit # 0 => (cmd.stderr # <<>> /\ \A k \in 1..Len(cmd.stdout) :
                                                    cmd.stdout[k][1] # "Found user: ")
        /\ cmd.exit = 0 => (cmd.stderr = <<>> /\ \E k \in 1..Len(cmd.stdout) :
                                                    cmd.stdout[k][1] = "Found user: ")
        /\ (Len(cmd.args) < 2 \/ (op = "GetUser" /\ ~err.nil) \/ (op # "GetUser" /\ op # "Close"))
               => cmd.exit # 0

----------------------------------------------------------------------------
(* Properties of NewSearcherFromEnv and of DefaultConfig *)

\* C28: NewSearcherFromEnv never enters the no-connection mode: its server
\* list is always the one element LDAP_URL, the empty address when LDAP_URL
\* is unset or empty, so it always attempts a dial and returns neither a
\* Searcher without a connection nor a no-servers error.
C28_FromEnvAlwaysDials ==
    op = "NewSearcher" =>
        /\ config.LdapServers = <<IF environ["LDAP_URL"].set THEN environ["LDAP_URL"].val ELSE <<>>>>
        /\ pc = "idle" =>
               /\ CallsNamed("DialURL") = {1}
               /\ calls[1].addr = config.LdapServers[1]
               /\ ~s.nil => s.conn # 0
               /\ s.nil => \E k \in 1..Len(calls) : ~calls[k].ok

C28_Witness ==
    /\ op = "NewSearcher" /\ pc = "idle"
    /\ ~environ["LDAP_URL"].set
    /\ calls = <<Failed(DialCall(<<>>, 0))>>
    /\ s.nil /\ err = DialError(<<>>)

\* the variables a call of NewSearcherWithDefaults writes
runVars == <<pc, op, config, conn, s, err, id, user, result, open, calls>>

\* a call of NewSearcherWithDefaults that changes the state
DefaultsCalled ==
    /\ pc = "idle"
    /\ op' \in {"NewSearcherWithDefaults", "NewSearcher"}
    /\ runVars' # runVars

\* C29: NewSearcherWithDefaults validates and connects with the value
\* DefaultConfig holds, which after package initialization only an
\* assignment changes: a change of the environment or of the files leaves
\* it as it is, and the call itself never reloads it.
C29_DefaultConfigLoadedOnce ==
    [][/\ DefaultsCalled =>
              /\ DefaultConfig' = DefaultConfig
              /\ IF DefaultConfig.Password = <<>>
                 THEN err' = NoPasswordError /\ pc' = "idle" /\ s'.nil
                 ELSE IF Len(DefaultConfig.LdapServers) = 0
                 THEN err' = NoURLError /\ pc' = "idle" /\ s'.nil
                 ELSE config' = DefaultConfig /\ pc' = "dial"
       /\ (pc # "start" /\ (environ' # environ \/ files' # files)) =>
              DefaultConfig' = DefaultConfig]_vars

C29_Witness ==
    /\ pc = "dial"
    /\ config = DefaultConfig
    /\ DefaultConfig.LdapServers = <<Addr1>> /\ DefaultConfig.Username = ""
    /\ ~environ["LDAP_URL"].set
    /\ loadConfigFromAll # DefaultConfig

====
